---- MODULE Spec2Model ----
(***************************************************************************)
(* Model of src/sessions.go: the Martini session middleware `Sessions` and *)
(* the request-scoped adapter `session` it maps into the handler chain.    *)
(*                                                                         *)
(* One request is modelled.  The handler chain (c.Next()) calls the        *)
(* adapter's operations in any order and may write the response header at *)
(* any point; writing the header is what makes the response writer call    *)
(* the function registered with rw.Before.  The store and the named        *)
(* sessions are the gorilla/sessions ones: a session is a Values map and   *)
(* an Options struct, and flashes are kept in Values under the flash key.  *)
(***************************************************************************)
EXTENDS Integers, Sequences, FiniteSets, TLC

\* ---------------------------------------------------------------- bounds
MaxOps == 2        \* adapter operations the handler chain performs
MaxWrites == 1     \* times the response header is written
MaxFlash == 2      \* flash messages kept under one flash key

\* ---------------------------------------------------------------- data
Names == {"app", "aux"}
DefaultFlashKey == "_flash"
Keys == {"hello", DefaultFlashKey}
Vals == {"world", "x"}

\* interface{} values held in Values: a plain value or a []interface{}.
Absent == [t |-> "absent", x |-> <<>>]
Scalar(v) == [t |-> "scalar", x |-> <<v>>]
List(q) == [t |-> "list", x |-> q]
Panic == [t |-> "panic", x |-> <<>>]

EmptyValues == [k \in Keys |-> Absent]

\* Options as the store hands them out with a session, and the
\* configurations a handler passes to Options().
DefaultOptions ==
    [Path |-> "/", Domain |-> "", MaxAge |-> 2592000, Secure |-> FALSE, HttpOnly |-> FALSE]
OptionsArgs ==
    { [Path |-> "/", Domain |-> "", MaxAge |-> 0 - 1, Secure |-> TRUE, HttpOnly |-> TRUE] }

\* What the client's cookie holds for session "app" when the request
\* arrives: nothing, or a value and a flash left by an earlier request.
StoredChoices ==
    { EmptyValues,
      [EmptyValues EXCEPT !["hello"] = Scalar("world"), ![DefaultFlashKey] = List(<<"x">>)] }

\* Optional variadic flash key of AddFlash / Flashes.
FlashVars == { <<>>, << DefaultFlashKey >> }

VARIABLES
    pc,        \* where the request is: "handler", "returned", "done"
    s,         \* the adapter: [ss, written], both Go maps
    store,     \* what store.Get finds for each name
    loads,     \* store.Get calls per name
    saves,     \* Session.Save calls per name, the whole request
    hookSaves, \* Session.Save calls per name, the last run of the hook
    logged,    \* lines written by check(), per name and store call
    writes,    \* WriteHeader calls, each a run of the hook
    released,  \* context.Clear(r) has run
    opCount,   \* adapter operations so far
    referenced,\* names passed to an adapter operation so far
    mutated,   \* names passed to Set/Delete/Clear/AddFlash/Flashes so far
    lastOp,    \* the last adapter operation, its arguments and result
    added,     \* added[n][k]: flashes added under k since the last Flashes
    dropped,   \* dropped[n][k]: Values[k] was deleted or overwritten since
    rq         \* two requests served at once, each with its own adapter

vars == << pc, s, store, loads, saves, hookSaves, logged, writes, released, opCount,
           referenced, mutated, lastOp, added, dropped, rq >>

\* ---------------------------------------------------------------- Go maps
\* m[k] = v on a Go map: the key is added when it is missing.
MapSet(m, k, v) == [x \in (DOMAIN m) \cup {k} |-> IF x = k THEN v ELSE m[x]]

\* ------------------------------------------------- gorilla/sessions store
\* store.Get(request, name): the named session of the request.  A store
\* never hands out a nil session; on an error (an undecodable cookie) the
\* session is a new, empty one and the error is returned with it.
StoreGet(name, err) ==
    [Values |-> IF err THEN EmptyValues ELSE store[name], Options |-> DefaultOptions]

\* flashKey(vars...): "_flash" unless a key is given.
flashKey(vs) == IF Len(vs) > 0 THEN vs[1] ELSE DefaultFlashKey

\* (*sessions.Session).AddFlash: append to the []interface{} kept in Values
\* under the flash key; the type assertion panics on any other value.
SessionAddFlash(values, value, vs) ==
    LET key == flashKey(vs)
        cur == values[key]
    IN  IF cur.t = "scalar"
        THEN [Values |-> values, panic |-> TRUE]
        ELSE [Values |-> [values EXCEPT ![key] = List(Append(cur.x, value))],
              panic |-> FALSE]
\* Flashes returning the flashes without deleting them.
SessionFlashesKept(values, vs) ==
    LET cur == values[flashKey(vs)]
    IN  [Values |-> values,
         ret |-> IF cur.t = "absent" THEN List(<<>>)
                 ELSE IF cur.t = "list" THEN cur ELSE Panic]

\* (*sessions.Session).Flashes: when the flash key is present, delete it and
\* return its []interface{}; the type assertion follows the delete.
SessionFlashes(values, vs) ==
    LET key == flashKey(vs)
        cur == values[key]
    IN  IF cur.t = "absent"
        THEN [Values |-> values, ret |-> List(<<>>)]
        ELSE [Values |-> [values EXCEPT ![key] = Absent],
              ret |-> IF cur.t = "list" THEN cur ELSE Panic]

\* ---------------------------------------------------------------- adapter
\* sv is the adapter, [ss, written]; err is the outcome of store.Get should
\* the operation have to load the session.

Written(sv, name) == name \in DOMAIN sv.written /\ sv.written[name]
\* Session() loading every session of the store on the first reference.
SessionEager(sv, name, err) ==
    [sv EXCEPT !.ss = [n \in Names |->
        IF n \in DOMAIN sv.ss THEN sv.ss[n] ELSE StoreGet(n, err)]]


Session(sv, name, err) ==
    IF name \notin DOMAIN sv.ss
    THEN [sv EXCEPT !.ss = MapSet(sv.ss, name, StoreGet(name, err))]
    ELSE sv
\* Get marking the session written, as the other operations do.
GetMarking(sv, name, key, err) ==
    LET t == Session(sv, name, err)
    IN  [s |-> [t EXCEPT !.written = MapSet(t.written, name, TRUE)],
         ret |-> t.ss[name].Values[key]]


Get(sv, name, key, err) ==
    LET t == Session(sv, name, err)
    IN  [s |-> t, ret |-> t.ss[name].Values[key]]
\* Set without `s.written[name] = true`.
SetUnmarked(sv, name, key, val, err) ==
    LET t == Session(sv, name, err)
    IN  [ss |-> [t.ss EXCEPT ![name].Values[key] = val], written |-> t.written]


Set(sv, name, key, val, err) ==
    LET t == Session(sv, name, err)
    IN  [ss |-> [t.ss EXCEPT ![name].Values[key] = val],
         written |-> MapSet(t.written, name, TRUE)]
\* Delete marking the session written only when the key was present.
DeleteIfPresent(sv, name, key, err) ==
    LET t == Session(sv, name, err)
    IN  [ss |-> [t.ss EXCEPT ![name].Values[key] = Absent],
         written |-> IF t.ss[name].Values[key] # Absent
                     THEN MapSet(t.written, name, TRUE)
                     ELSE t.written]

\* Delete that marks the name without loading its session.
DeleteLazy(sv, name, key, err) ==
    IF name \in DOMAIN sv.ss
    THEN LET t == Session(sv, name, err)
         IN  [ss |-> [t.ss EXCEPT ![name].Values[key] = Absent],
              written |-> MapSet(t.written, name, TRUE)]
    ELSE [ss |-> sv.ss, written |-> MapSet(sv.written, name, TRUE)]


Delete(sv, name, key, err) ==
    LET t == Session(sv, name, err)
    IN  [ss |-> [t.ss EXCEPT ![name].Values[key] = Absent],
         written |-> MapSet(t.written, name, TRUE)]

\* The range loop of Clear over the keys present in Values.
RECURSIVE ClearRange(_, _, _)
ClearRange(sv, name, keys) ==
    IF keys = {}
    THEN sv
    ELSE LET key == CHOOSE k \in keys : TRUE
         IN  ClearRange(Delete(sv, name, key, FALSE), name, keys \ {key})
\* Clear whose loop stops after its first Delete.
ClearFirst(sv, name, err) ==
    LET t == Session(sv, name, err)
        present == {k \in Keys : t.ss[name].Values[k] # Absent}
    IN  IF present = {}
        THEN t
        ELSE Delete(t, name, CHOOSE k \in present : TRUE, FALSE)

\* Clear marking the session written itself, keys or no keys.
ClearMarking(sv, name, err) ==
    LET t == Session(sv, name, err)
        c == ClearRange(t, name, {k \in Keys : t.ss[name].Values[k] # Absent})
    IN  [c EXCEPT !.written = MapSet(c.written, name, TRUE)]


Clear(sv, name, err) ==
    LET t == Session(sv, name, err)
    IN  ClearRange(t, name, {k \in Keys : t.ss[name].Values[k] # Absent})

AddFlash(sv, name, value, vs, err) ==
    LET t == Session(sv, name, err)
        r == SessionAddFlash(t.ss[name].Values, value, vs)
    IN  IF r.panic
        THEN [s |-> t, panic |-> TRUE]
        ELSE [s |-> [ss |-> [t.ss EXCEPT ![name].Values = r.Values],
                     written |-> MapSet(t.written, name, TRUE)],
              panic |-> FALSE]
\* Flashes marking the session written only when it returns a flash.
FlashesMarkIfAny(sv, name, vs, err) ==
    LET t == Session(sv, name, err)
        r == SessionFlashes(t.ss[name].Values, vs)
    IN  [s |-> [ss |-> [t.ss EXCEPT ![name].Values = r.Values],
                written |-> IF r.ret.x # <<>>
                            THEN MapSet(t.written, name, TRUE)
                            ELSE t.written],
         ret |-> r.ret]


Flashes(sv, name, vs, err) ==
    LET w == [sv EXCEPT !.written = MapSet(sv.written, name, TRUE)]
        t == Session(w, name, err)
        r == SessionFlashes(t.ss[name].Values, vs)
    IN  [s |-> [t EXCEPT !.ss[name].Values = r.Values], ret |-> r.ret]
\* Options applied to every loaded session.
OptionsAll(sv, name, options, err) ==
    LET t == Session(sv, name, err)
    IN  [ss |-> [m \in DOMAIN t.ss |->
                    [t.ss[m] EXCEPT !.Options =
                        [Path |-> options.Path, Domain |-> options.Domain,
                         MaxAge |-> options.MaxAge, Secure |-> options.Secure,
                         HttpOnly |-> options.HttpOnly]]],
         written |-> t.written]


Options(sv, name, options, err) ==
    LET t == Session(sv, name, err)
    IN  [t EXCEPT !.ss[name].Options =
            [Path |-> options.Path, Domain |-> options.Domain,
             MaxAge |-> options.MaxAge, Secure |-> options.Secure,
             HttpOnly |-> options.HttpOnly]]

\* Names the hook's `for n := range s.ss` visits.
RangeSS(sv) == DOMAIN sv.ss
\* The hook saving every loaded session.
SaveAlways(sv, n) == TRUE

\* The hook's test before saving a session.
SaveWanted(sv, n) == Written(sv, n)

\* ---------------------------------------------------------------- request
EmptyMap == [x \in {} |-> TRUE]

Mutating == {"Set", "Delete", "Clear", "AddFlash", "Flashes"}

NoOp == [op |-> "none", name |-> "", key |-> "", val |-> Absent, ret |-> Absent,
         err |-> FALSE]
\* Requests the server handles at the same time.
Reqs == {"r1", "r2"}

\* What Sessions(store) sets up when a request arrives: its own adapter with
\* empty maps; ops, writes, saved and marked record what the request does.
NewRequest ==
    [s |-> [ss |-> EmptyMap, written |-> EmptyMap], pc |-> "handler",
     ops |-> 0, writes |-> 0, saved |-> {}, marked |-> {}]

\* Sessions(store) called for a request: a fresh adapter, the hook
\* registered, context.Clear deferred, the handler chain about to run.
Init ==
    /\ pc = "handler"
    /\ s = [ss |-> EmptyMap, written |-> EmptyMap]
    /\ \E c \in StoredChoices : store = [n \in Names |-> IF n = "app" THEN c ELSE EmptyValues]
    /\ loads = [n \in Names |-> 0]
    /\ saves = [n \in Names |-> 0]
    /\ hookSaves = [n \in Names |-> 0]
    /\ logged = [n \in Names |-> [load |-> 0, save |-> 0]]
    /\ writes = 0
    /\ released = FALSE
    /\ opCount = 0
    /\ referenced = {}
    /\ mutated = {}
    /\ lastOp = NoOp
    /\ added = [n \in Names |-> [k \in Keys |->
                    IF store[n][k].t = "list" THEN store[n][k].x ELSE <<>>]]
    /\ dropped = [n \in Names |-> [k \in Keys |-> FALSE]]
    /\ rq = [r \in Reqs |-> NewRequest]

\* Outcomes store.Get can have when an operation on `name` runs.
LoadOutcomes(name) == IF name \in DOMAIN s.ss THEN {FALSE} ELSE BOOLEAN
\* Session() logging a failed load again on every later reference.
LoadEffectsRelog(env, sv, name, err) ==
    [env EXCEPT
        !.loads[name] = IF name \notin DOMAIN sv.ss THEN @ + 1 ELSE @,
        !.logged[name].load =
            IF (name \notin DOMAIN sv.ss /\ err) \/ (name \in DOMAIN sv.ss /\ @ > 0)
            THEN @ + 1 ELSE @]
\* Session() calling store.Get on every reference, loaded or not.
LoadEffectsEveryCall(env, sv, name, err) ==
    [env EXCEPT
        !.loads[name] = @ + 1,
        !.logged[name].load = IF name \notin DOMAIN sv.ss /\ err THEN @ + 1 ELSE @]

\* The store.Get call and the check(err) of Session(), as the store and the
\* logger see them: env is [loads, logged].
LoadEffects(env, sv, name, err) ==
    [env EXCEPT
        !.loads[name] = IF name \notin DOMAIN sv.ss THEN @ + 1 ELSE @,
        !.logged[name].load = IF name \notin DOMAIN sv.ss /\ err THEN @ + 1 ELSE @]

\* Flashes still pending for `name` once a failed load has dropped them.
AddedAfterLoad(name, err) ==
    IF name \notin DOMAIN s.ss /\ err
    THEN [added EXCEPT ![name] = [k \in Keys |-> <<>>]]
    ELSE added

\* A handler of the chain calls an adapter operation: newS is the adapter
\* after it, ret what it returns; a panic unwinds c.Next() and runs the
\* deferred context.Clear.
Call(op, name, key, val, err, newS, ret, newAdded, newDropped) ==
    /\ pc = "handler"
    /\ opCount < MaxOps
    /\ s' = newS
    /\ loads' = LoadEffects([loads |-> loads, logged |-> logged], s, name, err).loads
    /\ logged' = LoadEffects([loads |-> loads, logged |-> logged], s, name, err).logged
    /\ opCount' = opCount + 1
    /\ referenced' = referenced \cup {name}
    /\ mutated' = IF op \in Mutating THEN mutated \cup {name} ELSE mutated
    /\ lastOp' = [op |-> op, name |-> name, key |-> key, val |-> val, ret |-> ret,
                  err |-> err]
    /\ added' = newAdded
    /\ dropped' = newDropped
    /\ pc' = IF ret = Panic THEN "returned" ELSE pc
    /\ released' = (released \/ ret = Panic)
    /\ UNCHANGED << store, saves, hookSaves, writes, rq >>

DoGet(name, key, err) ==
    Call("Get", name, key, Absent, err,
         Get(s, name, key, err).s, Get(s, name, key, err).ret,
         AddedAfterLoad(name, err), dropped)

DoSet(name, key, v, err) ==
    Call("Set", name, key, Scalar(v), err,
         Set(s, name, key, Scalar(v), err), Absent,
         AddedAfterLoad(name, err), [dropped EXCEPT ![name][key] = TRUE])

DoDelete(name, key, err) ==
    Call("Delete", name, key, Absent, err,
         Delete(s, name, key, err), Absent,
         AddedAfterLoad(name, err), [dropped EXCEPT ![name][key] = TRUE])

DoClear(name, err) ==
    Call("Clear", name, "", Absent, err,
         Clear(s, name, err), Absent,
         AddedAfterLoad(name, err),
         [dropped EXCEPT ![name] =
            [k \in Keys |-> @[k] \/ Session(s, name, err).ss[name].Values[k] # Absent]])

DoAddFlash(name, v, vs, err) ==
    LET r == AddFlash(s, name, v, vs, err)
        key == flashKey(vs)
        cur == Session(s, name, err).ss[name].Values[key]
    IN  /\ Len(cur.x) < MaxFlash
        /\ Call("AddFlash", name, key, Scalar(v), err,
                r.s, IF r.panic THEN Panic ELSE Absent,
                IF r.panic
                THEN AddedAfterLoad(name, err)
                ELSE [AddedAfterLoad(name, err) EXCEPT ![name][key] = Append(@, v)],
                dropped)

DoFlashes(name, vs, err) ==
    LET r == Flashes(s, name, vs, err)
        key == flashKey(vs)
    IN  Call("Flashes", name, key, Absent, err,
             r.s, r.ret,
             [AddedAfterLoad(name, err) EXCEPT ![name][key] = <<>>],
             [dropped EXCEPT ![name][key] = FALSE])

DoOptions(name, options, err) ==
    Call("Options", name, "", Absent, err,
         Options(s, name, options, err), Absent,
         AddedAfterLoad(name, err), dropped)
\* The hook giving up at the first Save that fails.
RECURSIVE BeforeLoopAbort(_, _, _)
BeforeLoopAbort(h, names, failing) ==
    IF names = {}
    THEN h
    ELSE LET n == CHOOSE x \in names : TRUE
             g == IF SaveWanted(h.s, n)
                  THEN [h EXCEPT
                          !.logged[n].save = IF n \in failing THEN @ + 1 ELSE @,
                          !.saves[n] = @ + 1,
                          !.hookSaves[n] = @ + 1]
                  ELSE h
         IN  IF SaveWanted(h.s, n) /\ n \in failing
             THEN g
             ELSE BeforeLoopAbort(g, names \ {n}, failing)
\* A hook that clears the written mark of each session it saves.
RECURSIVE BeforeLoopReset(_, _, _)
BeforeLoopReset(h, names, failing) ==
    IF names = {}
    THEN h
    ELSE LET n == CHOOSE x \in names : TRUE
             g == IF SaveWanted(h.s, n)
                  THEN [h EXCEPT
                          !.s.written[n] = FALSE,
                          !.logged[n].save = IF n \in failing THEN @ + 1 ELSE @,
                          !.saves[n] = @ + 1,
                          !.hookSaves[n] = @ + 1]
                  ELSE h
         IN  BeforeLoopReset(g, names \ {n}, failing)

\* The function registered with rw.Before: its loop over the names still to
\* visit.  h is [s, loads, logged, saves, hookSaves]; failing is the set of
\* names whose Save returns an error, which check() logs.
RECURSIVE BeforeLoop(_, _, _)
BeforeLoop(h, names, failing) ==
    IF names = {}
    THEN h
    ELSE LET n == CHOOSE x \in names : TRUE
             e == LoadEffects([loads |-> h.loads, logged |-> h.logged], h.s, n, FALSE)
             g == IF SaveWanted(h.s, n)
                  THEN [s |-> Session(h.s, n, FALSE),
                        loads |-> e.loads,
                        logged |-> [e.logged EXCEPT
                                      ![n].save = IF n \in failing THEN @ + 1 ELSE @],
                        saves |-> [h.saves EXCEPT ![n] = @ + 1],
                        hookSaves |-> [h.hookSaves EXCEPT ![n] = @ + 1]]
                  ELSE h
         IN  BeforeLoop(g, names \ {n}, failing)

\* The response header is written (by a handler of the chain, or by a
\* handler outside it once the chain has returned): the response writer
\* first calls the function registered with rw.Before.
WriteHeader(failing) ==
    LET h == BeforeLoop([s |-> s, loads |-> loads, logged |-> logged, saves |-> saves,
                         hookSaves |-> [n \in Names |-> 0]],
                        RangeSS(s), failing)
    IN  /\ pc \in {"handler", "returned"}
        /\ writes < MaxWrites
        /\ failing \subseteq {n \in RangeSS(s) : SaveWanted(s, n)}
        /\ writes' = writes + 1
        /\ s' = h.s
        /\ loads' = h.loads
        /\ logged' = h.logged
        /\ saves' = h.saves
        /\ hookSaves' = h.hookSaves
        /\ UNCHANGED << pc, store, released, opCount, referenced, mutated, lastOp,
                        added, dropped, rq >>

\* c.Next() returns normally and the deferred context.Clear(r) runs.
HandlerReturn ==
    /\ pc = "handler"
    /\ pc' = "returned"
    /\ released' = TRUE
    /\ UNCHANGED << s, store, loads, saves, hookSaves, logged, writes, opCount,
                    referenced, mutated, lastOp, added, dropped, rq >>

\* The server is done with the request; nothing more is written through rw.
RequestEnd ==
    /\ pc = "returned"
    /\ pc' = "done"
    /\ UNCHANGED << s, store, loads, saves, hookSaves, logged, writes, released,
                    opCount, referenced, mutated, lastOp, added, dropped, rq >>

Next ==
    \/ \E name \in Names, key \in Keys : \E err \in LoadOutcomes(name) : DoGet(name, key, err)
    \/ \E name \in Names, key \in Keys, v \in Vals :
          \E err \in LoadOutcomes(name) : DoSet(name, key, v, err)
    \/ \E name \in Names, key \in Keys : \E err \in LoadOutcomes(name) : DoDelete(name, key, err)
    \/ \E name \in Names : \E err \in LoadOutcomes(name) : DoClear(name, err)
    \/ \E name \in Names, v \in Vals, vs \in FlashVars :
          \E err \in LoadOutcomes(name) : DoAddFlash(name, v, vs, err)
    \/ \E name \in Names, vs \in FlashVars :
          \E err \in LoadOutcomes(name) : DoFlashes(name, vs, err)
    \/ \E name \in Names, options \in OptionsArgs :
          \E err \in LoadOutcomes(name) : DoOptions(name, options, err)
    \/ \E failing \in SUBSET Names : WriteHeader(failing)
    \/ HandlerReturn
    \/ RequestEnd

Spec == Init /\ [][Next]_vars

\* The handler chain returns and the server finishes the request; nothing
\* obliges any handler to write the header.
FairSpec ==
    /\ Spec
    /\ WF_vars(HandlerReturn)
    /\ WF_vars(RequestEnd)
\* ------------------------------------------------- two requests at once
\* The server runs the Sessions handler once per request, concurrently for
\* concurrent requests: each run has the adapter it built itself, and all
\* share the store.  Steps of the two requests interleave in any order.

\* The variables of the single request above.
oneVars == << pc, s, store, loads, saves, hookSaves, logged, writes, released, opCount,
              referenced, mutated, lastOp, added, dropped >>

\* One adapter built by Sessions(store) itself and captured by the handler.
WithAdapterShared(q, r, newS) == [x \in Reqs |-> [q[x] EXCEPT !.s = newS]]

\* The adapter of request r becomes newS: `s` is local to the handler call.
WithAdapter(q, r, newS) == [q EXCEPT ![r].s = newS]

\* Adapter operations performed so far by the requests in R.
RECURSIVE OpsOf(_)
OpsOf(R) ==
    IF R = {}
    THEN 0
    ELSE LET r == CHOOSE x \in R : TRUE IN rq[r].ops + OpsOf(R \ {r})

ReqLoadOutcomes(r, name) == IF name \in DOMAIN rq[r].s.ss THEN {FALSE} ELSE BOOLEAN

\* A handler of request r calls an adapter operation on `name`; a panic
\* unwinds its c.Next().
ReqCall(r, op, name, newS, panics) ==
    /\ rq[r].pc = "handler"
    /\ OpsOf(Reqs) < MaxOps
    /\ rq' = [WithAdapter(rq, r, newS) EXCEPT
                ![r].ops = @ + 1,
                ![r].marked = IF op \in Mutating THEN @ \cup {name} ELSE @,
                ![r].pc = IF panics THEN "returned" ELSE @]
    /\ UNCHANGED oneVars

ReqGet(r, name, key, err) ==
    ReqCall(r, "Get", name, Get(rq[r].s, name, key, err).s, FALSE)

ReqSet(r, name, key, v, err) ==
    ReqCall(r, "Set", name, Set(rq[r].s, name, key, Scalar(v), err), FALSE)

ReqDelete(r, name, key, err) ==
    ReqCall(r, "Delete", name, Delete(rq[r].s, name, key, err), FALSE)

ReqClear(r, name, err) ==
    ReqCall(r, "Clear", name, Clear(rq[r].s, name, err), FALSE)

ReqAddFlash(r, name, v, vs, err) ==
    LET a == AddFlash(rq[r].s, name, v, vs, err)
        cur == Session(rq[r].s, name, err).ss[name].Values[flashKey(vs)]
    IN  /\ Len(cur.x) < MaxFlash
        /\ ReqCall(r, "AddFlash", name, a.s, a.panic)

ReqFlashes(r, name, vs, err) ==
    LET f == Flashes(rq[r].s, name, vs, err)
    IN  ReqCall(r, "Flashes", name, f.s, f.ret = Panic)

ReqOptions(r, name, options, err) ==
    ReqCall(r, "Options", name, Options(rq[r].s, name, options, err), FALSE)

\* The header of request r's response is written: its hook runs on its
\* adapter and saves into its response.
ReqWriteHeader(r) ==
    LET zero == [n \in Names |-> 0]
        h == BeforeLoop([s |-> rq[r].s, loads |-> zero,
                         logged |-> [n \in Names |-> [load |-> 0, save |-> 0]],
                         saves |-> zero, hookSaves |-> zero],
                        RangeSS(rq[r].s), {})
    IN  /\ rq[r].pc \in {"handler", "returned"}
        /\ rq[r].writes < MaxWrites
        /\ rq' = [WithAdapter(rq, r, h.s) EXCEPT
                    ![r].writes = @ + 1,
                    ![r].saved = @ \cup {n \in Names : h.hookSaves[n] > 0}]
        /\ UNCHANGED oneVars

\* c.Next() of request r returns.
ReqReturn(r) ==
    /\ rq[r].pc = "handler"
    /\ rq' = [rq EXCEPT ![r].pc = "returned"]
    /\ UNCHANGED oneVars

NextTwo ==
    \/ \E r \in Reqs, name \in Names, key \in Keys :
          \E err \in ReqLoadOutcomes(r, name) : ReqGet(r, name, key, err)
    \/ \E r \in Reqs, name \in Names, key \in Keys, v \in Vals :
          \E err \in ReqLoadOutcomes(r, name) : ReqSet(r, name, key, v, err)
    \/ \E r \in Reqs, name \in Names, key \in Keys :
          \E err \in ReqLoadOutcomes(r, name) : ReqDelete(r, name, key, err)
    \/ \E r \in Reqs, name \in Names :
          \E err \in ReqLoadOutcomes(r, name) : ReqClear(r, name, err)
    \/ \E r \in Reqs, name \in Names, v \in Vals, vs \in FlashVars :
          \E err \in ReqLoadOutcomes(r, name) : ReqAddFlash(r, name, v, vs, err)
    \/ \E r \in Reqs, name \in Names, vs \in FlashVars :
          \E err \in ReqLoadOutcomes(r, name) : ReqFlashes(r, name, vs, err)
    \/ \E r \in Reqs, name \in Names, options \in OptionsArgs :
          \E err \in ReqLoadOutcomes(r, name) : ReqOptions(r, name, options, err)
    \/ \E r \in Reqs : ReqWriteHeader(r)
    \/ \E r \in Reqs : ReqReturn(r)

SpecTwo == Init /\ [][NextTwo]_vars

\* ---------------------------------------------------------------- claims
\* A step of the handler chain that is an adapter operation.
OpStep(op) == opCount' = opCount + 1 /\ lastOp'.op = op

\* A step that is a run of the pre-send hook.
HookStep == writes' = writes + 1

\* Values of lastOp'.name as the operation finds them, loaded if need be.
PreValues == Session(s, lastOp'.name, lastOp'.err).ss[lastOp'.name].Values

\* C1: a run of the pre-send hook calls Save exactly once for each loaded
\* name n with Written(n) true and never for a name with Written(n) false.
C1_HookSavesDirtyOnce ==
    [][HookStep =>
        \A n \in Names :
            hookSaves'[n] = IF n \in DOMAIN s.ss /\ Written(s, n) THEN 1 ELSE 0]_vars

\* The hook has run on an adapter holding a written and an unwritten session.
C1_Witness ==
    /\ writes = 1
    /\ DOMAIN s.ss = Names
    /\ Written(s, "app") /\ ~Written(s, "aux")
    /\ hookSaves = [n \in Names |-> IF n = "app" THEN 1 ELSE 0]

\* C2: no mutating operation on a session n occurs after the Save of n.
C2_NoMutationAfterSave ==
    [][(\E op \in Mutating : OpStep(op)) => saves[lastOp'.name] = 0]_vars

\* C3: every name that is dirty when the handler chain has finished has
\* been passed to Save by the time the request ends.
C3_DirtyPersistedAtEnd ==
    pc = "done" => \A n \in Names : Written(s, n) => saves[n] >= 1

\* C4: a name never passed to an adapter operation is never loaded from the
\* store and never saved.
C4_LazyLoad ==
    \A n \in Names \ referenced :
        n \notin DOMAIN s.ss /\ loads[n] = 0 /\ saves[n] = 0

\* One name was used and saved, the other never referenced.
C4_Witness ==
    /\ referenced = {"app"}
    /\ writes = 1
    /\ saves["app"] = 1

\* C5: Get(n, key) leaves Written(m) of every name and the values of every
\* session as they were (n itself is loaded on first reference), and a
\* request without a mutating operation has no Save.
C5_GetIsPure ==
    /\ [][OpStep("Get") =>
            /\ s'.written = s.written
            /\ s'.ss = Session(s, lastOp'.name, lastOp'.err).ss
            /\ \A m \in DOMAIN s.ss : s'.ss[m] = s.ss[m]
            /\ lastOp'.name \notin DOMAIN s.ss =>
                  s'.ss[lastOp'.name] = StoreGet(lastOp'.name, lastOp'.err)]_vars
    /\ [](mutated = {} => \A n \in Names : saves[n] = 0)

\* Get of a missing key, then the response written without any Save.
C5_Witness ==
    /\ lastOp.op = "Get"
    /\ lastOp.ret = Absent
    /\ mutated = {}
    /\ writes = 1
    /\ \A n \in Names : saves[n] = 0 /\ ~Written(s, n)

\* C6: right after Set(n, k, v), Get(n, k) returns v and Written(n) is true.
C6_SetThenGet ==
    lastOp.op = "Set" =>
        /\ Get(s, lastOp.name, lastOp.key, FALSE).ret = lastOp.val
        /\ Written(s, lastOp.name)

\* Set as the first reference to a session, over a key with another value.
C6_Witness ==
    /\ lastOp.op = "Set" /\ lastOp.name = "app" /\ lastOp.key = "hello"
    /\ lastOp.val = Scalar("x")
    /\ opCount = 1 /\ ~lastOp.err
    /\ store["app"]["hello"] = Scalar("world")
    /\ s.ss["app"].Values["hello"] = Scalar("x")

\* C7: right after Delete(n, k), Get(n, k) returns absent and Written(n) is
\* true, whether or not k was present.
C7_DeleteThenGet ==
    lastOp.op = "Delete" =>
        /\ Get(s, lastOp.name, lastOp.key, FALSE).ret = Absent
        /\ Written(s, lastOp.name)

\* Delete of a key the session never had.
C7_Witness ==
    /\ lastOp.op = "Delete" /\ lastOp.name = "aux"
    /\ opCount = 1
    /\ store["aux"] = EmptyValues
    /\ Written(s, "aux")

\* C8: Clear(n) on a session with at least one key leaves it without keys
\* and Written(n) true.
C8_ClearEmpties ==
    [][(OpStep("Clear") /\ PreValues # EmptyValues) =>
        /\ s'.ss[lastOp'.name].Values = EmptyValues
        /\ Written(s', lastOp'.name)]_vars

\* Clear of a loaded session holding two keys.
C8_Witness ==
    /\ lastOp.op = "Clear" /\ lastOp.name = "app"
    /\ opCount = 1 /\ ~lastOp.err
    /\ store["app"]["hello"] # Absent /\ store["app"][DefaultFlashKey] # Absent
    /\ s.ss["app"].Values = EmptyValues
    /\ Written(s, "app")

C10_FlashesMarksDirty ==
    /\ [](lastOp.op = "Flashes" => Written(s, lastOp.name))
    /\ [][(HookStep /\ lastOp.op = "Flashes") => hookSaves'[lastOp.name] = 1]_vars

\* Flashes as the only operation, on a session without flashes, then saved.
C10_Witness ==
    /\ lastOp.op = "Flashes" /\ lastOp.name = "aux"
    /\ lastOp.ret = List(<<>>)
    /\ opCount = 1
    /\ writes = 1
    /\ hookSaves["aux"] = 1

\* C11: in a run of the pre-send hook, whichever Saves fail, Save is called
\* once for every dirty name, each failure is logged once and nothing else
\* is, and the hook returns to the writer of the header, which goes on.
C11_SaveErrorsDoNotBlock ==
    [][HookStep =>
        /\ \A n \in Names :
              IF n \in DOMAIN s.ss /\ Written(s, n)
              THEN /\ hookSaves'[n] = 1
                   /\ saves'[n] = saves[n] + 1
                   /\ logged'[n].save \in {logged[n].save, logged[n].save + 1}
              ELSE /\ saves'[n] = saves[n]
                   /\ logged'[n].save = logged[n].save
        /\ pc' = pc
        /\ s' = s]_vars

\* Two dirty sessions, the Save of one failed, both were saved.
C11_Witness ==
    /\ writes = 1
    /\ Written(s, "app") /\ Written(s, "aux")
    /\ hookSaves["app"] = 1 /\ hookSaves["aux"] = 1
    /\ \E n \in Names : logged[n].save = 1 /\ \A m \in Names \ {n} : logged[m].save = 0

C13_ChangedImpliesWritten ==
    \A n \in DOMAIN s.ss :
        s.ss[n] # StoreGet(n, logged[n].load > 0) => Written(s, n)

\* C14 as stated: a name is marked dirty iff Set, Delete, Clear, AddFlash or
\* Flashes has been invoked on it.
C14_DirtyIffMutated ==
    \A n \in Names : Written(s, n) <=> n \in mutated

\* The step is an operation on n that sets written[n].
MarksWritten(n) ==
    /\ opCount' = opCount + 1
    /\ lastOp'.name = n
    /\ \/ lastOp'.op \in {"Set", "Delete", "Flashes"}
       \/ lastOp'.op = "AddFlash" /\ lastOp'.ret # Panic
       \/ lastOp'.op = "Clear" /\ PreValues # EmptyValues

\* C14 amended: a name is marked dirty iff Set, Delete or Flashes has been
\* invoked on it, AddFlash has returned on it without a panic, or Clear has
\* been invoked on it while it held at least one key; Clear of a session
\* without keys leaves Written(n) as it was.
C14_DirtyIffMarkingOperation ==
    /\ \A n \in Names : ~Written(s, n)
    /\ [][\A n \in Names : Written(s', n) <=> (Written(s, n) \/ MarksWritten(n))]_vars

\* Clear was invoked on a session without keys, which is not marked dirty.
C14_Witness ==
    /\ lastOp.op = "Clear" /\ lastOp.name = "aux"
    /\ opCount = 1
    /\ "aux" \in DOMAIN s.ss /\ "aux" \in mutated
    /\ ~Written(s, "aux")

C16_NothingAfterRelease ==
    /\ [](pc = "done" => released)
    /\ [][released => (saves' = saves /\ opCount' = opCount)]_vars

\* Request r takes no part in the step.
Idle(r) ==
    rq'[r].ops = rq[r].ops /\ rq'[r].writes = rq[r].writes /\ rq'[r].pc = rq[r].pc

\* C17: each request starts with empty loaded and dirty maps, a step of one
\* request leaves the other request's adapter and saves as they were, and a
\* request's hook saves only names that request itself has marked dirty.
C17_RequestsIsolated ==
    /\ \A r \in Reqs : rq[r].s = [ss |-> EmptyMap, written |-> EmptyMap]
    /\ [][\A r \in Reqs : Idle(r) => (rq'[r].s = rq[r].s /\ rq'[r].saved = rq[r].saved)]_vars
    /\ [](\A r \in Reqs :
            /\ rq[r].saved \subseteq rq[r].marked
            /\ \A n \in rq[r].saved : Written(rq[r].s, n))

\* Both requests used session "app": one set a value and its hook saved it,
\* the other only read it and its hook saved nothing.
C17_Witness ==
    /\ Written(rq["r1"].s, "app") /\ rq["r1"].saved = {"app"}
    /\ "app" \in DOMAIN rq["r2"].s.ss /\ ~Written(rq["r2"].s, "app")
    /\ rq["r2"].writes = 1 /\ rq["r2"].saved = {}

\* C18: every name marked written is a key of the loaded-session map, so
\* the hook's loop over that map visits every dirty name.
C18_WrittenIsLoaded ==
    \A n \in DOMAIN s.written : s.written[n] => n \in DOMAIN s.ss

\* Delete was the first use of session "aux": it loaded and marked it.
C18_Witness ==
    /\ opCount = 1 /\ lastOp.op = "Delete" /\ lastOp.name = "aux"
    /\ Written(s, "aux") /\ "aux" \in DOMAIN s.ss

\* C19: once Written(n) is true, no adapter operation and no run of the
\* hook makes it false again.
C19_WrittenIsMonotonic ==
    [][\A n \in Names : Written(s, n) => Written(s', n)]_vars

\* The hook has saved "app", a read followed, and "app" is still written.
C19_Witness ==
    /\ hookSaves["app"] = 1 /\ writes = 1 /\ Written(s, "app")
    /\ opCount = 2 /\ lastOp.op = "Get"

\* C20: an operation on one name leaves every other name's session (its
\* values with the flashes in them, its options), loaded status and
\* written mark as they were.
C20_ScopedToName ==
    [][opCount' = opCount + 1 =>
          \A m \in Names \ {lastOp'.name} :
              /\ m \in DOMAIN s'.ss <=> m \in DOMAIN s.ss
              /\ m \in DOMAIN s.ss => s'.ss[m] = s.ss[m]
              /\ Written(s', m) <=> Written(s, m)]_vars

\* Options changed session "app" while "aux", loaded and marked earlier,
\* keeps its default options.
C20_Witness ==
    /\ opCount = 2 /\ lastOp.op = "Options" /\ lastOp.name = "app"
    /\ s.ss["app"].Options # DefaultOptions
    /\ "aux" \in DOMAIN s.ss /\ Written(s, "aux")
    /\ s.ss["aux"].Options = DefaultOptions

====
